---- MODULE Spec2Model ----
(***************************************************************************)
(* A model of wmipp (include/wmipp/wmipp.hxx): the Interface (Session),    *)
(* QueryResult (ResultSet), Object (Record) ownership graph, the drain of  *)
(* the enumerator, the property lookups and ConvertVariant.                *)
(*                                                                         *)
(* Three specifications share the module:                                  *)
(*   Spec        lifetime: Create, shared_ptr copies/releases across       *)
(*               threads, ExecuteQuery step by step, ~Interface            *)
(*   SpecQuery   one ExecuteQuery over an enumerated cursor, and the       *)
(*               lookups on the QueryResult it returns                     *)
(*   SpecDecode  ConvertVariant on an enumerated CComVariant               *)
(***************************************************************************)
EXTENDS Integers, Sequences, FiniteSets

VARIABLES
    iface,      \* the Interface object and the COM runtime it initialised
    useCount,   \* strong count of the shared_ptr control block of the Interface
    sess,       \* sess[t]: shared_ptr<Interface> handles thread t holds
    results,    \* results[t][n]: QueryResults with n Objects thread t holds
    recs,       \* recs[t]: Object copies thread t holds outside any QueryResult
    call,       \* call[t]: Idle, or the number of Objects of the QueryResult
                \* thread t is populating inside ExecuteQuery
    last,       \* the operation that produced this state
    cursor,     \* SpecQuery: what IEnumWbemClassObject::Next will report, in order
    submit,     \* SpecQuery: what IWbemServices::ExecQuery will report
    qr,         \* SpecQuery: the QueryResult the caller holds, or NoResult
    outcome,    \* SpecQuery: how ExecuteQuery ended
    fetches,    \* SpecQuery: calls of Next made so far
    lk,         \* SpecQuery: the last lookup and what it returned
    var,        \* SpecDecode: the CComVariant and the heap objects it owns
    dec         \* SpecDecode: the last ConvertVariant call and what it returned

lifeVars == <<iface, useCount, sess, results, recs, call, last>>
queryVars == <<cursor, submit, qr, outcome, fetches, lk>>
decodeVars == <<var, dec>>
vars == <<iface, useCount, sess, results, recs, call, last,
          cursor, submit, qr, outcome, fetches, lk, var, dec>>

(***************************************************************************)
(* Bounds.                                                                 *)
(***************************************************************************)
MaxOwners == 6      \* cap on the strong count (guards of the acquiring actions)
MaxRows == 3        \* Spec: rows one drain may pull
MaxEmit == 3        \* SpecQuery: length of the enumerated cursor report sequence
MaxArray == 2       \* SpecDecode: length of an enumerated SAFEARRAY
MaxDecodes == 2     \* SpecDecode: ConvertVariant calls on one variant

Threads == {"t1", "t2"}
Idle == [active |-> FALSE, n |-> 0]
Populating(n) == [active |-> TRUE, n |-> n]

(***************************************************************************)
(* The COM runtime and the two CComPtr members, as state transformers on   *)
(* the record s = iface.                                                   *)
(*   co        CoInitializeEx calls not yet balanced by CoUninitialize     *)
(*   locator_, services_   "null" or "held"                                *)
(*   blanket   CoSetProxyBlanket succeeded                                 *)
(*   alive     the constructor completed and the destructor has not run    *)
(*   uninits   CoUninitialize calls made by the last constructor or        *)
(*             destructor run (history)                                    *)
(*   late      some CComPtr was released while co = 0 (history)            *)
(***************************************************************************)
NoInterface ==
    [alive |-> FALSE, co |-> 0, locator_ |-> "null", services_ |-> "null",
     blanket |-> FALSE, uninits |-> 0, late |-> FALSE, result |-> "none"]

CoInitializeEx(s) == [s EXCEPT !.co = @ + 1]

CoUninitialize(s) ==
    [s EXCEPT !.co = IF @ > 0 THEN @ - 1 ELSE 0, !.uninits = @ + 1]

Acquire(s, member) == [s EXCEPT ![member] = "held"]

\* CComPtr::Release / ~CComPtr: a null pointer is left alone.
ReleasePtr(s, member) ==
    IF s[member] = "held"
    THEN [s EXCEPT ![member] = "null", !.late = @ \/ (s.co = 0)]
    ELSE s

\* The implicit member destructors, in reverse order of declaration.
MemberDtors(s) == ReleasePtr(ReleasePtr(s, "services_"), "locator_")

\* throw Exception(...) out of the constructor: the members are destroyed,
\* ~Interface does not run, make_shared yields nothing.
Throw(s) == [MemberDtors(s) EXCEPT !.alive = FALSE, !.result = "error"]

InitFailure(s) == Throw(s)

LocatorFailure(s) == Throw(CoUninitialize(s))

ConnectFailure(s) == Throw(CoUninitialize(s))

\* Faulty variant: the branch throws without CoUninitialize.
BlanketFailureLeak(s) == Throw(s)

BlanketFailure(s) == Throw(CoUninitialize(s))

FailSteps ==
    {"none", "CoInitializeEx", "CoCreateInstance", "ConnectServer",
     "CoSetProxyBlanket"}

\* Interface::Interface(path); failAt names the call that reports FAILED.
Ctor(s0, failAt) ==
    LET s == [NoInterface EXCEPT !.co = s0.co] IN
    IF failAt = "CoInitializeEx" THEN InitFailure(s)
    ELSE LET s1 == CoInitializeEx(s) IN
         IF failAt = "CoCreateInstance" THEN LocatorFailure(s1)
         ELSE LET s2 == Acquire(s1, "locator_") IN
              IF failAt = "ConnectServer" THEN ConnectFailure(s2)
              ELSE LET s3 == Acquire(s2, "services_") IN
                   IF failAt = "CoSetProxyBlanket" THEN BlanketFailure(s3)
                   ELSE [s3 EXCEPT !.blanket = TRUE, !.alive = TRUE,
                                   !.result = "ok"]

\* Interface::~Interface(), then the (now null) members' destructors.
Dtor(s0) ==
    LET s == [s0 EXCEPT !.uninits = 0, !.late = FALSE]
        s1 == ReleasePtr(s, "services_")
        s2 == ReleasePtr(s1, "locator_")
        s3 == CoUninitialize(s2)
    IN [MemberDtors(s3) EXCEPT !.alive = FALSE, !.blanket = FALSE,
                               !.result = "destroyed"]

(***************************************************************************)
(* Ownership.  Every Object and every QueryResult holds its own            *)
(* shared_ptr<const Interface> (iface_).                                   *)
(***************************************************************************)
\* Faulty variant: Objects keep a plain pointer to the Interface.
ObjectRefsRaw(n) == 0

\* n Objects hold n references.
ObjectRefs(n) == n

\* A QueryResult with n Objects: its own iface_ and one per Object.
QueryResultRefs(n) == 1 + ObjectRefs(n)

\* Faulty variant: the reference is taken before the FAILED check and kept.
RefsAfterSubmitLeak(accepted, count) == count + 1

\* ExecuteQuery takes shared_from_this() only once ExecQuery has succeeded.
RefsAfterSubmit(accepted, count) == IF accepted THEN count + 1 ELSE count

\* Faulty variant: a FAILED report does not end the loop.
StopsDrainOnEndOnly(resp) == resp = "end"

\* PopulateObjects: FAILED(result) || returned_count == 0 ends the loop.
StopsDrain(resp) == resp = "fail" \/ resp = "end"

RowCounts == 0..MaxRows

Held(t) ==
    LET RECURSIVE Sum(_)
        Sum(n) == IF n < 0 THEN 0 ELSE results[t][n] + Sum(n - 1)
    IN Sum(MaxRows)

ResultRefsOf(t) ==
    LET RECURSIVE Sum(_)
        Sum(n) == IF n < 0 THEN 0
                  ELSE results[t][n] * (1 + n) + Sum(n - 1)
    IN Sum(MaxRows)

RECURSIVE SumOver(_, _)
SumOver(S, f) ==
    IF S = {} THEN 0
    ELSE LET x == CHOOSE y \in S : TRUE IN f[x] + SumOver(S \ {x}, f)

\* Session handles, QueryResults (also the one being populated) and Objects
\* that exist, counted from the handles themselves, not from useCount.
SessionHandles == SumOver(Threads, sess)
ResultSets ==
    SumOver(Threads, [t \in Threads |->
        Held(t) + (IF call[t] = Idle THEN 0 ELSE 1)])
Records ==
    SumOver(Threads, [t \in Threads |->
        recs[t] + (ResultRefsOf(t) - Held(t))
        + call[t].n])
Derived == ResultSets + Records

\* The shared_ptr control block: dropping k references runs ~Interface when
\* the count reaches zero.
DropRefs(k) ==
    /\ useCount' = useCount - k
    /\ iface' = IF useCount - k = 0 THEN Dtor(iface) ELSE iface

Op(op, arg) == [op |-> op, arg |-> arg]

\* Interface::Create(path): make_shared<MakeSharedEnabler>(path).
Create(t) ==
    /\ ~iface.alive
    /\ \A u \in Threads : call[u] = Idle
    /\ \E failAt \in FailSteps :
        /\ iface' = Ctor(iface, failAt)
        /\ useCount' = IF failAt = "none" THEN 1 ELSE 0
        /\ sess' = IF failAt = "none" THEN [sess EXCEPT ![t] = 1] ELSE sess
        /\ last' = Op("Create", failAt)
    /\ UNCHANGED <<results, recs, call, queryVars, decodeVars>>

\* Copying a shared_ptr<Interface>; the copy is handed to thread u.
DupSession(t, u) ==
    /\ call[t] = Idle
    /\ sess[t] > 0
    /\ useCount < MaxOwners
    /\ sess' = [sess EXCEPT ![u] = @ + 1]
    /\ useCount' = useCount + 1
    /\ last' = Op("DupSession", "")
    /\ UNCHANGED <<iface, results, recs, call, queryVars, decodeVars>>

\* Destroying a shared_ptr<Interface>.
ReleaseSession(t) ==
    /\ call[t] = Idle
    /\ sess[t] > 0
    /\ sess' = [sess EXCEPT ![t] = @ - 1]
    /\ DropRefs(1)
    /\ last' = Op("ReleaseSession", "")
    /\ UNCHANGED <<results, recs, call, queryVars, decodeVars>>

\* Interface::ExecuteQuery up to the construction of the QueryResult:
\* ExecQuery, the FAILED check, shared_from_this().
ExecuteQuery(t) ==
    /\ call[t] = Idle
    /\ sess[t] > 0
    /\ \E accepted \in BOOLEAN :
        /\ accepted => useCount < MaxOwners
        /\ useCount' = RefsAfterSubmit(accepted, useCount)
        /\ call' = IF accepted THEN [call EXCEPT ![t] = Populating(0)] ELSE call
        /\ last' = Op("ExecuteQuery", IF accepted THEN "accepted" ELSE "rejected")
    /\ UNCHANGED <<iface, sess, results, recs, queryVars, decodeVars>>

\* One turn of the loop of QueryResult::PopulateObjects: a call of Next, and
\* either the break and the return of the QueryResult, or emplace_back.
Fetch(t) ==
    /\ call[t] # Idle
    /\ \E resp \in {"row", "end", "fail"} :
        IF StopsDrain(resp)
        THEN /\ results' = [results EXCEPT ![t][call[t].n] = @ + 1]
             /\ call' = [call EXCEPT ![t] = Idle]
             /\ last' = Op("Returned", resp)
             /\ UNCHANGED useCount
        ELSE /\ call[t].n < MaxRows
             /\ useCount + ObjectRefs(1) <= MaxOwners
             /\ call' = [call EXCEPT ![t] = Populating(@.n + 1)]
             /\ useCount' = useCount + ObjectRefs(1)
             /\ last' = Op("Fetch", resp)
             /\ UNCHANGED results
    /\ UNCHANGED <<iface, sess, recs, queryVars, decodeVars>>

\* Copying a QueryResult with n Objects (implicit copy constructor: iface_
\* and every Object of objects_ are copied); the copy is handed to thread u.
CopyResultSet(t, n, u) ==
    /\ call[t] = Idle
    /\ results[t][n] > 0
    /\ useCount + QueryResultRefs(n) <= MaxOwners
    /\ results' = [results EXCEPT ![u][n] = @ + 1]
    /\ useCount' = useCount + QueryResultRefs(n)
    /\ last' = Op("CopyResultSet", "")
    /\ UNCHANGED <<iface, sess, recs, call, queryVars, decodeVars>>

\* Destroying a QueryResult: objects_, then iface_.
ReleaseResultSet(t, n) ==
    /\ call[t] = Idle
    /\ results[t][n] > 0
    /\ results' = [results EXCEPT ![t][n] = @ - 1]
    /\ DropRefs(QueryResultRefs(n))
    /\ last' = Op("ReleaseResultSet", "")
    /\ UNCHANGED <<sess, recs, call, queryVars, decodeVars>>

\* Copying an Object out of a QueryResult (GetAt returns a const Object&);
\* the copy is handed to thread u.
CopyRecord(t, n, u) ==
    /\ call[t] = Idle
    /\ n > 0
    /\ results[t][n] > 0
    /\ useCount + ObjectRefs(1) <= MaxOwners
    /\ recs' = [recs EXCEPT ![u] = @ + 1]
    /\ useCount' = useCount + ObjectRefs(1)
    /\ last' = Op("CopyRecord", "")
    /\ UNCHANGED <<iface, sess, results, call, queryVars, decodeVars>>

\* Destroying an Object held outside a QueryResult.
ReleaseRecord(t) ==
    /\ call[t] = Idle
    /\ recs[t] > 0
    /\ recs' = [recs EXCEPT ![t] = @ - 1]
    /\ DropRefs(ObjectRefs(1))
    /\ last' = Op("ReleaseRecord", "")
    /\ UNCHANGED <<sess, results, call, queryVars, decodeVars>>

\* Object::GetProperty on an Object thread t can reach: object_->Get goes
\* through the connection; the outcome recorded is whether the runtime and
\* the services pointer were there for it.
ReadField(t) ==
    /\ call[t] = Idle
    /\ recs[t] > 0 \/ \E n \in RowCounts : n > 0 /\ results[t][n] > 0
    /\ last' = Op("GetProperty",
                  IF iface.alive /\ iface.co > 0 /\ iface.services_ = "held"
                  THEN "connected" ELSE "torn down")
    /\ UNCHANGED <<iface, useCount, sess, results, recs, call, queryVars, decodeVars>>

LifeInit ==
    /\ iface = NoInterface
    /\ useCount = 0
    /\ sess = [t \in Threads |-> 0]
    /\ results = [t \in Threads |-> [n \in RowCounts |-> 0]]
    /\ recs = [t \in Threads |-> 0]
    /\ call = [t \in Threads |-> Idle]
    /\ last = Op("Init", "")

Next ==
    \E t \in Threads :
        \/ Create(t)
        \/ ReleaseSession(t)
        \/ ExecuteQuery(t)
        \/ Fetch(t)
        \/ ReleaseRecord(t)
        \/ ReadField(t)
        \/ \E u \in Threads : DupSession(t, u)
        \/ \E n \in RowCounts : ReleaseResultSet(t, n)
        \/ \E n \in RowCounts, u \in Threads :
            CopyResultSet(t, n, u) \/ CopyRecord(t, n, u)

(***************************************************************************)
(* CComVariant values.  vt is the type tag; val the payload: an integer    *)
(* (VT_I4), a string (VT_BSTR), a sequence (an array, elem its element     *)
(* type) and <<>> for VT_EMPTY and VT_NULL.                                *)
(***************************************************************************)
VNull == [vt |-> "VT_NULL", elem |-> "", val |-> <<>>]
VEmpty == [vt |-> "VT_EMPTY", elem |-> "", val |-> <<>>]
VInt(n) == [vt |-> "VT_I4", elem |-> "", val |-> n]
VStr(str) == [vt |-> "VT_BSTR", elem |-> "", val |-> str]
VArray(elem, items) == [vt |-> "VT_ARRAY", elem |-> elem, val |-> items]

Absent == [kind |-> "absent", value |-> <<>>]
Present(x) == [kind |-> "present", value |-> x]

\* std::optional equality: both empty, or both engaged with equal values.
SameResult(a, b) ==
    /\ a.kind = b.kind
    /\ a.kind = "present" => a.value = b.value

Ints == {0, 7, 42}
Strs == {"abc", "42"}

\* VariantChangeType between VT_I4 and VT_BSTR on the values of the model.
IntToStr(n) == CASE n = 0 -> "0" [] n = 7 -> "7" [] n = 42 -> "42"
StrParses(str) == str \in {"0", "7", "42"}
StrToInt(str) == CASE str = "0" -> 0 [] str = "7" -> 7 [] str = "42" -> 42

\* ConvertVariant<T> for a scalar T (here int): static_cast<T>(variant_t(v));
\* a failed VariantChangeType throws and the catch yields nullopt.
ConvertScalar(v) ==
    CASE v.vt = "VT_I4" -> Present(v.val)
      [] v.vt = "VT_BSTR" ->
            IF StrParses(v.val) THEN Present(StrToInt(v.val)) ELSE Absent
      [] v.vt = "VT_EMPTY" -> Present(0)
      [] OTHER -> Absent

\* ConvertVariant<std::string / std::wstring>: through bstr_t.
ConvertString(v) ==
    CASE v.vt = "VT_BSTR" -> Present(v.val)
      [] v.vt = "VT_I4" -> Present(IntToStr(v.val))
      [] v.vt = "VT_EMPTY" -> Present("")
      [] OTHER -> Absent

(***************************************************************************)
(* Rows (IWbemClassObject) and Object::GetProperty.                        *)
(***************************************************************************)
Names == {"Foo", "Bar"}
RowKinds == {"rA", "rB", "rC"}
Missing == [vt |-> "missing", elem |-> "", val |-> <<>>]

\* IWbemClassObject::Get: the property's value, or Missing (a FAILED result).
RowFields(row, name) ==
    CASE row = "rA" /\ name = "Bar" -> VNull
      [] row = "rB" /\ name = "Foo" -> VInt(42)
      [] row = "rC" /\ name = "Foo" -> VStr("abc")
      [] OTHER -> Missing

ScalarTargets == {"int", "string", "variant_t"}

\* Object::GetProperty<T>(name).
Object_GetProperty(row, name, T) ==
    LET variant == RowFields(row, name) IN
    IF variant = Missing THEN Absent
    ELSE IF T = "variant_t" THEN Present(variant)
    ELSE IF T = "int" THEN ConvertScalar(variant)
    ELSE ConvertString(variant)

(***************************************************************************)
(* QueryResult.                                                            *)
(***************************************************************************)
NoResult == [made |-> FALSE, objects |-> <<>>]
QueryResult(objs) == [made |-> TRUE, objects |-> objs]

Emissions == RowKinds \cup {"end", "fail"}

\* The report of the k-th call of Next: past the enumerated reports the
\* cursor is exhausted.
NextReport(cur, k) == IF k <= Len(cur) THEN cur[k] ELSE "end"

\* Faulty variant: rows are inserted at the front.
EmplaceFront(objs, row) == <<row>> \o objs

\* objects_.emplace_back(Object(iface_, object)).
EmplaceBack(objs, row) == Append(objs, row)

\* QueryResult::PopulateObjects, with the calls of Next counted.
RECURSIVE PopulateObjects(_, _, _)
PopulateObjects(cur, objs, calls) ==
    LET resp == NextReport(cur, calls + 1) IN
    IF StopsDrain(resp)
    THEN [objects |-> objs, fetches |-> calls + 1]
    ELSE PopulateObjects(cur, EmplaceBack(objs, resp), calls + 1)

Count(objs) == Len(objs)

\* QueryResult::GetAt: std::vector::at throws std::out_of_range.
GetAt(objs, index) ==
    IF index < Len(objs)
    THEN [kind |-> "ok", value |-> objs[index + 1]]
    ELSE [kind |-> "out_of_range", value |-> <<>>]

\* QueryResult::operator[]
Subscript(objs, index) == GetAt(objs, index)

\* The loop of QueryResult::GetProperty(name), from the i-th Object on.
RECURSIVE ScanFrom(_, _, _, _)
ScanFrom(objs, i, name, T) ==
    IF i > Len(objs) THEN Absent
    ELSE LET value == Object_GetProperty(objs[i], name, T) IN
         IF value.kind = "present" THEN value
         ELSE ScanFrom(objs, i + 1, name, T)

\* Faulty variant: only the first Object is asked.
QR_GetPropertyFirstOnly(objs, name, T) ==
    IF objs = <<>> THEN Absent ELSE Object_GetProperty(objs[1], name, T)

\* QueryResult::GetProperty<T>(name)
QR_GetProperty(objs, name, T) == ScanFrom(objs, 1, name, T)

\* Faulty variant: index > Count().
OutOfRangeOffByOne(index, count) == index > count

\* if (index >= Count()) return std::nullopt;
OutOfRange(index, count) == index >= count

\* QueryResult::GetProperty<T>(name, index); an exception of GetAt would
\* propagate.
QR_GetPropertyAt(objs, name, T, index) ==
    IF OutOfRange(index, Count(objs)) THEN Absent
    ELSE LET obj == GetAt(objs, index) IN
         IF obj.kind = "ok" THEN Object_GetProperty(obj.value, name, T)
         ELSE obj

Cursors == UNION {[1..n -> Emissions] : n \in 0..MaxEmit}
Submits == {"rejected", "accepted", "accepted, no enumerator"}
Indices == 0..(MaxEmit + 1)
NoLookup ==
    [op |-> "none", name |-> "", T |-> "", index |-> 0, res |-> Absent]
Lookup(op, name, T, index, res) ==
    [op |-> op, name |-> name, T |-> T, index |-> index, res |-> res]

\* Interface::ExecuteQuery, whole: ExecQuery, the throw on FAILED, and the
\* QueryResult constructor with its drain.
QExecuteQuery ==
    /\ outcome = "none"
    /\ IF submit = "rejected"
       THEN /\ outcome' = "QueryError"
            /\ UNCHANGED <<qr, fetches>>
       ELSE IF submit = "accepted"
       THEN LET r == PopulateObjects(cursor, <<>>, 0) IN
            /\ qr' = QueryResult(r.objects)
            /\ fetches' = r.fetches
            /\ outcome' = "returned"
       ELSE /\ qr' = QueryResult(<<>>)
            /\ outcome' = "returned"
            /\ UNCHANGED fetches
    /\ UNCHANGED <<cursor, submit, lk, lifeVars, decodeVars>>

QGetProperty ==
    /\ qr.made
    /\ \E name \in Names, T \in ScalarTargets :
        lk' = Lookup("GetProperty", name, T, 0,
                     QR_GetProperty(qr.objects, name, T))
    /\ UNCHANGED <<cursor, submit, qr, outcome, fetches, lifeVars, decodeVars>>

QGetPropertyAt ==
    /\ qr.made
    /\ \E name \in Names, T \in ScalarTargets, index \in Indices :
        lk' = Lookup("GetPropertyAt", name, T, index,
                     QR_GetPropertyAt(qr.objects, name, T, index))
    /\ UNCHANGED <<cursor, submit, qr, outcome, fetches, lifeVars, decodeVars>>

QGetAt ==
    /\ qr.made
    /\ \E index \in Indices :
        lk' = Lookup("GetAt", "", "", index, GetAt(qr.objects, index))
    /\ UNCHANGED <<cursor, submit, qr, outcome, fetches, lifeVars, decodeVars>>

QSubscript ==
    /\ qr.made
    /\ \E index \in Indices :
        lk' = Lookup("operator[]", "", "", index, Subscript(qr.objects, index))
    /\ UNCHANGED <<cursor, submit, qr, outcome, fetches, lifeVars, decodeVars>>

QCount ==
    /\ qr.made
    /\ lk' = Lookup("Count", "", "", 0,
                    [kind |-> "ok", value |-> Count(qr.objects)])
    /\ UNCHANGED <<cursor, submit, qr, outcome, fetches, lifeVars, decodeVars>>

QueryInit ==
    /\ cursor \in Cursors
    /\ submit \in Submits
    /\ qr = NoResult
    /\ outcome = "none"
    /\ fetches = 0
    /\ lk = NoLookup

QueryNext ==
    \/ QExecuteQuery
    \/ QGetProperty
    \/ QGetPropertyAt
    \/ QGetAt
    \/ QSubscript
    \/ QCount

QueryIdle ==
    /\ cursor = <<>>
    /\ submit = "rejected"
    /\ qr = NoResult
    /\ outcome = "none"
    /\ fetches = 0
    /\ lk = NoLookup

(***************************************************************************)
(* ConvertVariant on arrays, and what it does to the variant's heap.       *)
(* var: v the value; frees[i] the SysFreeString calls made so far on the   *)
(* i-th BSTR the variant owns (the elements of a BSTR array, the string of *)
(* a VT_BSTR); locks the SAFEARRAY lock count; destroyed once the          *)
(* CComVariant destructor (VariantClear) has run; decodes the calls made;  *)
(* first[T] the result of the first ConvertVariant<T>.                     *)
(***************************************************************************)
Targets == ScalarTargets \cup {"vector<int>", "vector<string>"}
Crash == [kind |-> "crash", value |-> <<>>]
Garbage == [kind |-> "garbage", value |-> <<>>]
NotYet == [kind |-> "not yet", value |-> <<>>]

\* variant.parray, a member of the VARIANT's union: the SAFEARRAY of an
\* array, and otherwise whatever the payload's bits are as a pointer.
PArray(v) ==
    CASE v.vt = "VT_ARRAY" -> "array"
      [] v.vt = "VT_I4" -> IF v.val = 0 THEN "NULL" ELSE "wild"
      [] v.vt = "VT_BSTR" -> "wild"
      [] OTHER -> "NULL"

\* CComSafeArray<elem>::Attach(psa): throws on NULL and on another element
\* type, else locks the array.  On a pointer that is no SAFEARRAY the read of
\* its header is undefined: a throw, a fault, or an array of garbage.
Attach(psa, v, elem) ==
    CASE psa = "NULL" -> {"throw"}
      [] psa = "array" -> IF v.elem = elem THEN {"ok"} ELSE {"throw"}
      [] OTHER -> {"throw", "crash", "garbage"}

Outcome(res, frees, attach, locks) ==
    [res |-> res, frees |-> frees, attach |-> attach, locks |-> locks]

\* ConvertVariant<std::vector<T>>, T's automation type being elem: Attach,
\* the element-wise copy (of a BSTR: of the pointer), Detach.
ConvertVector(vr, elem) ==
    LET psa == PArray(vr.v) IN
    {CASE a = "ok" -> Outcome(Present(vr.v.val), vr.frees, psa,
                              (vr.locks + 1) - 1)
       [] a = "throw" -> Outcome(Absent, vr.frees, psa, vr.locks)
       [] a = "crash" -> Outcome(Crash, vr.frees, psa, vr.locks)
       [] OTHER -> Outcome(Garbage, vr.frees, psa, vr.locks)
     : a \in Attach(psa, vr.v, elem)}

\* ConvertVariant<std::vector<std::string / std::wstring>>: the BSTRs read
\* by ConvertVariant<std::vector<BSTR>> are the array's own; each is
\* converted and then handed to SysFreeString.
ConvertStringVector(vr) ==
    {IF intm.res.kind = "present"
     THEN [intm EXCEPT !.frees = [i \in DOMAIN vr.frees |-> vr.frees[i] + 1]]
     ELSE intm
     : intm \in ConvertVector(vr, "VT_BSTR")}

\* Some BSTR of the variant has been freed and is still pointed to.
Dangling(vr) == \E i \in DOMAIN vr.frees : vr.frees[i] > 0

\* ConvertVariant<T>(variant) and Object::GetProperty's variant_t
\* passthrough.  Every path copies or walks the variant, so with a dangling
\* BSTR in it the result is undefined.
DecodeOutcomes(vr, T) ==
    LET defined ==
            CASE T = "int" ->
                    {Outcome(ConvertScalar(vr.v), vr.frees, "none", vr.locks)}
              [] T = "string" ->
                    {Outcome(ConvertString(vr.v), vr.frees, "none", vr.locks)}
              [] T = "variant_t" ->
                    {Outcome(Present(vr.v), vr.frees, "none", vr.locks)}
              [] T = "vector<int>" -> ConvertVector(vr, "VT_I4")
              [] OTHER -> ConvertStringVector(vr)
    IN IF Dangling(vr)
       THEN defined \cup {[o EXCEPT !.res = r] :
                            o \in defined, r \in {Crash, Garbage}}
       ELSE defined

ArraysOf(S) == UNION {[1..n -> S] : n \in 0..MaxArray}

Variants ==
    {VNull, VEmpty} \cup {VInt(n) : n \in Ints} \cup {VStr(str) : str \in Strs}
    \cup {VArray("VT_I4", a) : a \in ArraysOf({7, 42})}
    \cup {VArray("VT_BSTR", a) : a \in ArraysOf(Strs)}

\* The BSTRs a fresh variant owns, none freed.
OwnedStrings(v) ==
    IF v.vt = "VT_BSTR" THEN <<0>>
    ELSE IF v.vt = "VT_ARRAY" /\ v.elem = "VT_BSTR"
    THEN [i \in 1..Len(v.val) |-> 0]
    ELSE <<>>

NoDecode ==
    [T |-> "none", res |-> NotYet, attach |-> "none", again |-> FALSE,
     before |-> NotYet]

\* One ConvertVariant<T> call on the variant.
Decode(T) ==
    /\ ~var.destroyed
    /\ dec.res.kind # "crash"
    /\ var.decodes < MaxDecodes
    /\ \E o \in DecodeOutcomes(var, T) :
        /\ var' = [var EXCEPT !.frees = o.frees, !.locks = o.locks,
                              !.decodes = @ + 1,
                              !.first[T] = IF @ = NotYet THEN o.res ELSE @]
        /\ dec' = [T |-> T, res |-> o.res, attach |-> o.attach,
                   again |-> var.first[T] # NotYet, before |-> var.first[T]]
    /\ UNCHANGED <<lifeVars, queryVars>>

DecodeInt == Decode("int")
DecodeString == Decode("string")
DecodeVariant == Decode("variant_t")
DecodeIntVector == Decode("vector<int>")
DecodeStringVector == Decode("vector<string>")

\* ~CComVariant: VariantClear frees the BSTR, or destroys the SAFEARRAY and
\* with it every element BSTR.
DestroyVariant ==
    /\ ~var.destroyed
    /\ dec.res.kind # "crash"
    /\ var' = [var EXCEPT !.destroyed = TRUE,
                          !.frees = [i \in DOMAIN @ |-> @[i] + 1]]
    /\ UNCHANGED <<dec, lifeVars, queryVars>>

DecodeInit ==
    /\ \E v \in Variants :
        var = [v |-> v, frees |-> OwnedStrings(v), locks |-> 0,
               destroyed |-> FALSE, decodes |-> 0,
               first |-> [T \in Targets |-> NotYet]]
    /\ dec = NoDecode

DecodeNext ==
    \/ DecodeInt
    \/ DecodeString
    \/ DecodeVariant
    \/ DecodeIntVector
    \/ DecodeStringVector
    \/ DestroyVariant

DecodeIdle ==
    /\ var = [v |-> VNull, frees |-> <<>>, locks |-> 0, destroyed |-> FALSE,
              decodes |-> 0, first |-> [T \in Targets |-> NotYet]]
    /\ dec = NoDecode

Init == LifeInit /\ QueryIdle /\ DecodeIdle

Spec == Init /\ [][Next]_vars

InitQuery == LifeInit /\ QueryInit /\ DecodeIdle

SpecQuery == InitQuery /\ [][QueryNext]_vars

InitDecode == LifeInit /\ QueryIdle /\ DecodeInit

SpecDecode == InitDecode /\ [][DecodeNext]_vars

(***************************************************************************)
(* Properties of Spec.                                                     *)
(***************************************************************************)
Connected ==
    /\ iface.alive
    /\ iface.co > 0
    /\ iface.locator_ = "held"
    /\ iface.services_ = "held"

\* C1: while a Session handle, a ResultSet or a Record of the Session exists,
\* on any thread, the Session has not been torn down (connection held, runtime
\* initialised); and every field read from a Record finds it so, also after
\* the caller has dropped every Session handle.
C1_LifetimeSafe ==
    /\ SessionHandles + Derived > 0 => Connected
    /\ last.op = "GetProperty" => last.arg = "connected"

C1_Witness ==
    /\ SessionHandles = 0
    /\ Records > 0
    /\ last = Op("GetProperty", "connected")

\* C2: Create either completes all four steps and yields one Session, or
\* yields none with a connection error; the runtime initialisation is undone
\* exactly once when a later step fails and not at all when it failed itself.
C2_CreateAllOrNothing ==
    last.op = "Create" =>
        IF last.arg = "none"
        THEN /\ Connected /\ iface.blanket /\ iface.result = "ok"
             /\ iface.co = 1 /\ iface.uninits = 0
             /\ useCount = 1 /\ SessionHandles = 1
        ELSE /\ ~iface.alive /\ iface.result = "error"
             /\ useCount = 0 /\ SessionHandles = 0
             /\ iface.co = 0
             /\ iface.uninits = IF last.arg = "CoInitializeEx" THEN 0 ELSE 1

C2_Witness ==
    /\ last = Op("Create", "CoSetProxyBlanket")
    /\ iface.uninits = 1
    /\ iface.co = 0

\* C4: a step in which ExecQuery rejects the query text ends in a query
\* error and changes nothing: no QueryResult is constructed or being
\* populated (so no Next is called), the strong count is what it was, and
\* the Session is still connected and held by the caller, ready for a query.
C4_RejectedQueryLeavesNothing ==
    [][last'.op = "ExecuteQuery" /\ last'.arg = "rejected" =>
        /\ useCount' = useCount
        /\ results' = results
        /\ call' = call
        /\ sess' = sess
        /\ recs' = recs
        /\ iface' = iface
        /\ Connected'
        /\ \E t \in Threads : sess'[t] > 0 /\ call'[t] = Idle]_vars

C4_Witness ==
    /\ last = Op("ExecuteQuery", "rejected")
    /\ useCount = 1
    /\ ResultSets = 0

\* C10: no connection handle (locator_, services_) is released once the
\* runtime it depends on has been un-initialised.
C10_ReleaseBeforeUninit == ~iface.late

(***************************************************************************)
(* Properties of SpecQuery.                                                *)
(***************************************************************************)
Min(S) == CHOOSE x \in S : \A y \in S : x <= y

\* Positions of the cursor reports that end a drain, read off the cursor.
Stops == {i \in 1..Len(cursor) : cursor[i] \in {"end", "fail"}}
RowsBeforeFirstStop ==
    IF Stops = {} THEN cursor ELSE SubSeq(cursor, 1, Min(Stops) - 1)
FirstStop == IF Stops = {} THEN "end" ELSE cursor[Min(Stops)]
Drained == submit = "accepted" /\ outcome # "none"

\* C3 as claimed: a failed fetch aborts ExecuteQuery with an error and no
\* QueryResult reaches the caller.
C3_FetchErrorAborts ==
    Drained /\ FirstStop = "fail" => outcome = "QueryError" /\ ~qr.made

\* C3 as amended: a failed fetch ends the drain like the end of the cursor;
\* ExecuteQuery returns, without an error, the QueryResult holding exactly
\* the rows fetched before the failure.
C3_FetchErrorEndsDrain ==
    Drained /\ FirstStop = "fail" =>
        /\ outcome = "returned"
        /\ qr.made
        /\ qr.objects = RowsBeforeFirstStop

C3_Witness ==
    /\ Drained /\ FirstStop = "fail"
    /\ outcome = "returned"
    /\ Len(qr.objects) >= 1
    /\ Len(cursor) > Len(qr.objects) + 1

\* C5: the QueryResult returned holds exactly the rows the cursor emitted
\* before its first "zero rows" or failure report, one Object per row in
\* emission order, pulled one row per call of Next; and once returned, no
\* operation changes its Count or the Object at any index.
C5_DrainExactAndFixed ==
    /\ [](Drained =>
            /\ qr.made
            /\ Len(qr.objects) = Len(RowsBeforeFirstStop)
            /\ \A i \in 1..Len(qr.objects) : qr.objects[i] = cursor[i]
            /\ fetches = Len(qr.objects) + 1)
    /\ [][qr.made =>
            /\ qr'.made
            /\ Count(qr'.objects) = Count(qr.objects)
            /\ \A i \in 0..(Count(qr.objects) - 1) :
                GetAt(qr'.objects, i) = GetAt(qr.objects, i)]_vars

C5_Witness ==
    /\ Drained
    /\ Len(qr.objects) >= 2
    /\ qr.objects[1] # qr.objects[2]
    /\ Len(cursor) > Len(qr.objects)
    /\ lk.op = "GetPropertyAt"

\* The Objects of the QueryResult on which Object::GetProperty<T>(name) is
\* not absent, by 0-based index.
Having(name, T) ==
    {i \in 0..(Len(qr.objects) - 1) :
        Object_GetProperty(qr.objects[i + 1], name, T).kind = "present"}

\* C6: GetProperty<T>(name) is Object::GetProperty<T>(name) of the
\* lowest-index Object for which that is not absent, and absent iff it is
\* absent for every Object; on three rows of which only the second has
\* Foo = 42 it is 42, as is index 1, and indexes 0 and 2 are absent.
C6_FirstMatch ==
    /\ lk.op = "GetProperty" =>
        IF Having(lk.name, lk.T) = {}
        THEN lk.res.kind = "absent"
        ELSE SameResult(lk.res,
                Object_GetProperty(qr.objects[Min(Having(lk.name, lk.T)) + 1],
                                   lk.name, lk.T))
    /\ qr.made /\ qr.objects = <<"rA", "rB", "rA">> /\ lk.name = "Foo"
       /\ lk.T = "int" =>
        /\ lk.op = "GetProperty" => SameResult(lk.res, Present(42))
        /\ lk.op = "GetPropertyAt" /\ lk.index \in {0, 2} =>
            lk.res.kind = "absent"
        /\ lk.op = "GetPropertyAt" /\ lk.index = 1 =>
            SameResult(lk.res, Present(42))

C6_Witness ==
    /\ qr.objects = <<"rA", "rB", "rA">>
    /\ lk = Lookup("GetProperty", "Foo", "int", 0, Present(42))

\* C7: past the end (index >= Count, the empty QueryResult included)
\* GetProperty<T>(name, index) is absent and raises nothing, while GetAt and
\* operator[] fail with out_of_range; below Count, GetAt yields the Object at
\* that position and GetProperty<T>(name, index) is its GetProperty<T>(name).
C7_IndexedLookup ==
    /\ lk.op = "GetPropertyAt" =>
        IF lk.index >= Count(qr.objects)
        THEN lk.res.kind = "absent"
        ELSE SameResult(lk.res,
                Object_GetProperty(qr.objects[lk.index + 1], lk.name, lk.T))
    /\ lk.op \in {"GetAt", "operator[]"} =>
        IF lk.index >= Count(qr.objects)
        THEN lk.res.kind = "out_of_range"
        ELSE lk.res.kind = "ok" /\ lk.res.value = qr.objects[lk.index + 1]

C7_Witness ==
    /\ Count(qr.objects) = 2
    /\ lk.op = "GetPropertyAt"
    /\ lk.index = Count(qr.objects)
    /\ lk.res.kind = "absent"

(***************************************************************************)
(* Properties of SpecDecode.                                               *)
(***************************************************************************)
ElemOf(T) == IF T = "vector<int>" THEN "VT_I4" ELSE "VT_BSTR"

\* C8: array decode is all-or-nothing: an array of the target's element kind
\* decodes to its elements, in order and in full; an array of another kind,
\* and a value that is no array, decode to absent, and a value that is no
\* array is never walked as a SAFEARRAY.
C8_ArrayAllOrNothing ==
    dec.T \in {"vector<int>", "vector<string>"} /\ ~dec.again =>
        IF var.v.vt = "VT_ARRAY" /\ var.v.elem = ElemOf(dec.T)
        THEN dec.res.kind = "present" /\ dec.res.value = var.v.val
        ELSE dec.res.kind = "absent" /\ dec.attach # "wild"

\* C9: ConvertVariant leaves its input as it found it: no BSTR of the
\* variant is freed by the decoder (so each is freed once, by the variant's
\* destructor), the SAFEARRAY is left unlocked, and a second decode to the
\* same target gives the same result.
C9_DecoderPure ==
    dec.T # "none" =>
        /\ var.locks = 0
        /\ \A i \in DOMAIN var.frees :
            var.frees[i] = IF var.destroyed THEN 1 ELSE 0
        /\ dec.again => SameResult(dec.res, dec.before)

====
